---- MODULE Spec2Model ----
(***************************************************************************)
(* Session manager and event bridge of wa-connections-crm.                 *)
(*                                                                         *)
(* The model follows src/src/connections.js (first variant, lines 1-433),  *)
(* src/src/webhooks.js and the socket bridge of src/src/server.js.         *)
(* JavaScript runs one synchronous segment at a time: every action below   *)
(* is one such segment, from the entry of a function or the resumption of  *)
(* an `await` to the next `await`, `return` or `throw`.                    *)
(***************************************************************************)
EXTENDS Integers, Sequences, FiniteSets, TLC

(* ------------------------------------------------------------------------ *)
(* Bounds                                                                   *)
(* ------------------------------------------------------------------------ *)
MaxHandles == 3
MaxCalls == 2
MaxPending == 1
MaxConns == 2
MaxDataLen == 9
MaxMediaMax == 7

Ids == {"a", "b"}
EmptyId == ""
Handles == 1..MaxHandles
Slots == 1..MaxCalls

CallbackKinds == {"qr", "authenticated", "ready", "auth_failure", "disconnected", "message"}

VARIABLES
  clients,     \* the registry Map: id -> session (0 when the id has no entry)
  nHandles,    \* number of Client objects constructed so far (handles 1..nHandles)
  sess,        \* session objects, one per constructed Client
  creds,       \* ids whose credential directory session-<id> exists on disk
  calls,       \* API calls in flight or completed, one per caller slot
  pending,     \* async callback handlers suspended at an await, in emission order
  nListeners,  \* number of listeners the socket bridge holds on each bus topic
  fired,       \* what the last step published (bus fan-out and webhook dispatch)
  ret,         \* what the last step returned or threw to the caller of an API call
  webhookMediaMax,  \* WEBHOOK_MEDIA_MAX, read from the environment when the module loads
  webhookUrl,  \* whether WEBHOOK_URL is set (a non-empty string)
  restore      \* the restoreAllSessions call made at boot

vars == <<clients, nHandles, sess, creds, calls, pending, nListeners,
          fired, ret, webhookMediaMax, webhookUrl, restore>>

(* ------------------------------------------------------------------------ *)
(* Values                                                                   *)
(* ------------------------------------------------------------------------ *)
NoSession == [id |-> "-", status |-> "none", info |-> FALSE, me |-> FALSE, eng |-> "none"]
\* to: the recipient (to, chatId) a send operation was called with; chat: the
\* chat id it handed to the engine
NoCall == [op |-> "-", id |-> "-", pc |-> "idle", h |-> 0, res |-> "-", arg |-> "-",
           to |-> <<>>, chat |-> <<>>]
NoRet == [op |-> "-", id |-> "-", h |-> 0, res |-> "-", to |-> <<>>]
\* data.media of a published message: att tells whether downloadMedia delivered
\* an attachment, mode is "inline" (data attached), "skipped" (data: null,
\* skipped: true) or "none" (data.media was never set), size is the size
\* estimated for the attachment, saved tells whether saveBase64ToUploads wrote it
NoMedia == [att |-> FALSE, mode |-> "none", size |-> 0, saved |-> FALSE]

\* list: the payload of a 'sessions' frame sent to a socket that connects
\* post: the axios.post of fireWebhook ("none", "inflight", "ok", "failed");
\* attempts: how many times the event was posted
NoEv == [kind |-> "-", h |-> 0, bus |-> FALSE, recv |-> 0, threw |-> FALSE, hook |-> FALSE,
         late |-> FALSE, media |-> NoMedia, list |-> {}, post |-> "none", attempts |-> 0]

NullChatId == <<>>

\* restoreAllSessions: dirs is what readdirSync returned (as ids), todo the
\* part of it the loop has not reached, cur and h the id and the handle of the
\* createSession it awaits, ok the way a createSession that is already
\* settled has settled, ids the list it builds, log every createSession it
\* has seen settle, in order, with its outcome
NoRestore == [pc |-> "idle", dirs |-> <<>>, todo |-> <<>>, cur |-> "-", h |-> 0, ok |-> FALSE,
              ids |-> <<>>, log |-> <<>>]

(* ------------------------------------------------------------------------ *)
(* Pure helpers                                                             *)
(* ------------------------------------------------------------------------ *)
Digits == {"0", "1", "2", "3", "4", "5", "6", "7", "8", "9"}
Whitespace == {" "}

RECURSIVE TrimLeft(_)
TrimLeft(s) == IF s # <<>> /\ Head(s) \in Whitespace THEN TrimLeft(Tail(s)) ELSE s

RECURSIVE TrimRight(_)
TrimRight(s) ==
  IF s # <<>> /\ s[Len(s)] \in Whitespace THEN TrimRight(SubSeq(s, 1, Len(s) - 1)) ELSE s

Trim(s) == TrimRight(TrimLeft(s))

LowerChar(ch) ==
  CASE ch = "C" -> "c"
    [] ch = "G" -> "g"
    [] ch = "U" -> "u"
    [] ch = "S" -> "s"
    [] OTHER -> ch

EndsWithNoCase(s, suf) ==
  /\ Len(s) >= Len(suf)
  /\ \A k \in 1..Len(suf) : LowerChar(s[Len(s) - Len(suf) + k]) = suf[k]

HasChatSuffix(s) ==
  \/ EndsWithNoCase(s, <<"@", "c", ".", "u", "s">>)
  \/ EndsWithNoCase(s, <<"@", "g", ".", "u", "s">>)

OnlyDigits(s) == SelectSeq(s, LAMBDA ch : ch \in Digits)

\* the normalisation without the test for an empty digit string
toChatIdNoDigitCheck(raw) ==
  IF raw = <<>> THEN NullChatId
  ELSE LET s == Trim(raw)
       IN IF HasChatSuffix(s) THEN s ELSE OnlyDigits(s) \o <<"@", "c", ".", "u", "s">>

\* the toChatId of the second copy of the module: `${digits}@c.us` whether
\* digits is empty or not
toChatIdOlder(raw) ==
  IF raw = <<>> THEN NullChatId
  ELSE LET s == Trim(raw)
       IN IF HasChatSuffix(s) THEN s ELSE OnlyDigits(s) \o <<"@", "c", ".", "u", "s">>

toChatId(raw) ==
  IF raw = <<>> THEN NullChatId
  ELSE LET s == Trim(raw)
           digits == OnlyDigits(s)
       IN IF HasChatSuffix(s) THEN s
          ELSE IF digits # <<>> THEN digits \o <<"@", "c", ".", "u", "s">>
          ELSE NullChatId

\* recipients the API calls of Next are tried with
ToInputs == { <<"1", "5">>, <<"a", "b">> }

MediaMimes == { [base |-> "audio/ogg", rest |-> <<>>], [base |-> "image/png", rest |-> <<>>] }

RawInputs ==
  { <<>>,
    <<"1", "5">>,
    <<"+", "1", " ", "5">>,
    <<" ", "7", " ">>,
    <<"a", "b">>,
    <<" ">>,
    <<"g", "1", "@", "g", ".", "u", "s">>,
    <<"x", "@", "C", ".", "U", "S">>,
    <<"@", "c", ".", "u", "s">> }

\* a MIME string is base followed by the characters of rest
MimeInputs ==
  { [base |-> "audio/ogg", rest |-> <<>>],
    [base |-> "audio/ogg", rest |-> <<";", " ", "c", "=", "o">>],
    [base |-> "AUDIO/OGG", rest |-> <<>>],
    [base |-> "Audio/Ogg", rest |-> <<";">>],
    [base |-> "audio/ogg", rest |-> <<"x">>],
    [base |-> "audio/ogg", rest |-> <<" ">>],
    [base |-> "audio/mpeg", rest |-> <<>>],
    [base |-> "audio/mpeg", rest |-> <<";", "o", "g", "g">>],
    [base |-> "image/png", rest |-> <<>>],
    [base |-> "", rest |-> <<>>] }

\* the i flag of the pattern
LowerBase(b) ==
  CASE b = "AUDIO/OGG" -> "audio/ogg"
    [] b = "Audio/Ogg" -> "audio/ogg"
    [] OTHER -> b

\* a test that takes every MIME type for a voice note
isOggOpusAny(m) == TRUE

\* /^audio\/ogg(?:;.*)?$/i
isOggOpus(m) ==
  /\ LowerBase(m.base) = "audio/ogg"
  /\ m.rest = <<>> \/ Head(m.rest) = ";"

(* ------------------------------------------------------------------------ *)
(* Registry and engine helpers                                              *)
(* ------------------------------------------------------------------------ *)
\* clients.has(id) answering false for an id that has an entry
HasSessionNever(id) == FALSE

HasSession(id) == id \in Ids /\ clients[id] # 0

getSession(id) == IF id \in Ids THEN clients[id] ELSE 0

statusOf(id) == IF HasSession(id) THEN sess[clients[id]].status ELSE "offline"

listSessions == { [id |-> i, status |-> statusOf(i), me |-> sess[clients[i]].me] :
                  i \in {j \in Ids : clients[j] # 0} }

\* a session object that starts out waiting for a scan
InitialStatusQr == "qr"

InitialStatus == "initializing"

\* a test that lets every id through
MissingIdNever(id) == FALSE

\* !id
MissingId(id) == id = EmptyId

NewSession(id) ==
  [id |-> id, status |-> InitialStatus, info |-> FALSE, me |-> FALSE, eng |-> "starting"]

\* a handle whose initialize() was called and whose destroy() was not
Live(h) == sess[h].eng \in {"starting", "running"}

\* the status guard letting every status through
NotReadyNever(h) == FALSE

NotReady(h) == sess[h].status # "ready"

\* a teardown that is never asked for
DestroyedNever(s, h) == s

Destroyed(s, h) == [s EXCEPT ![h].eng = "destroyed"]

\* the directory of id left on disk
RemoveDirSkipped(id) == creds

\* an fs.rmSync on SESSIONS_DIR itself
RemoveDirAll(id) == {}

RemoveDir(id) == creds \ {id}

\* a caller takes the first slot that holds no call in flight
FreeSlot(c) == calls[c].pc = "idle" /\ \A d \in 1..(c - 1) : calls[d].pc # "idle"

\* a call that returned or threw leaves its slot and shows in ret
Settle(c, r) ==
  /\ calls' = [calls EXCEPT ![c] = IF r.pc = "done" THEN NoCall ELSE r]
  /\ ret' = IF r.pc = "done"
              THEN [op |-> r.op, id |-> r.id, h |-> r.h, res |-> r.res, to |-> r.to]
            ELSE NoRet

Done(op, id, h, res) ==
  [op |-> op, id |-> id, pc |-> "done", h |-> h, res |-> res, arg |-> "-", to |-> <<>>,
   chat |-> NullChatId]

Await(op, id, pc, h, arg) ==
  [op |-> op, id |-> id, pc |-> pc, h |-> h, res |-> "pending", arg |-> arg, to |-> <<>>,
   chat |-> NullChatId]

\* the call record of a send operation called with recipient to
To(r, to) ==
  [r EXCEPT !.to = to, !.chat = IF r.pc = "done" THEN NullChatId ELSE toChatId(to)]

\* fireWebhook: `if (!WEBHOOK_URL) return;`, else axios.post is called once and
\* the function suspends at the await; called tells whether fireWebhook is reached
Posted(called) == IF called /\ webhookUrl THEN "inflight" ELSE "none"

\* EventEmitter.emit: listeners run in registration order; the first one that
\* throws (t) ends the fan-out and the exception leaves emit()
\* a handler that runs on to fireWebhook after bus.emit does so only if emit returned
BusEmit(kind, h, t, late) ==
  [kind |-> kind, h |-> h, bus |-> TRUE, recv |-> IF t = 0 THEN nListeners ELSE t,
   threw |-> t # 0, hook |-> t = 0, late |-> late, media |-> NoMedia, list |-> {},
   post |-> Posted(t = 0), attempts |-> IF Posted(t = 0) = "inflight" THEN 1 ELSE 0]

\* a dispatch that also publishes the event on the bus
fireWebhookAndBus(kind, h) ==
  [kind |-> kind, h |-> h, bus |-> TRUE, recv |-> nListeners, threw |-> FALSE, hook |-> TRUE,
   late |-> FALSE, media |-> NoMedia, list |-> {},
   post |-> Posted(TRUE), attempts |-> IF webhookUrl THEN 1 ELSE 0]

\* an event an operation hands to fireWebhook alone, without a bus.emit
fireWebhook(kind, h) ==
  [kind |-> kind, h |-> h, bus |-> FALSE, recv |-> 0, threw |-> FALSE, hook |-> TRUE,
   late |-> FALSE, media |-> NoMedia, list |-> {},
   post |-> Posted(TRUE), attempts |-> IF webhookUrl THEN 1 ELSE 0]

\* The session object of a handle is captured by the closures of createSession.
\* Once it has left the registry it can be reached only through the handlers of
\* its own engine, which write its fields, or through the value a step has just
\* handed out. Apart from that value its fields are never read again: they are
\* dropped, its engine state (which decides whether callbacks still arrive) is
\* kept.
Keeps(h) ==
  \/ \E i \in Ids : clients'[i] = h
  \/ fired'.h = h
  \/ ret'.h = h

Gone(s) ==
  [id |-> s.id, status |-> "unreachable", info |-> FALSE, me |-> FALSE,
   eng |-> IF s.eng = "destroy_failed" THEN "destroyed" ELSE s.eng]

Collect(S) ==
  [h \in Handles |-> IF h <= nHandles' /\ ~Keeps(h) THEN Gone(S[h]) ELSE S[h]]

\* last conjunct of every action: the session objects after the step
Tidy(S) == sess' = Collect(S)

(* ------------------------------------------------------------------------ *)
(* Initial state                                                            *)
(* ------------------------------------------------------------------------ *)
OneId == {"a"}

InitAll(I, M, U) ==
  /\ webhookMediaMax \in M
  /\ webhookUrl \in U
  /\ restore = NoRestore
  /\ clients = [i \in Ids |-> 0]
  /\ nHandles = 0
  /\ sess = [h \in Handles |-> NoSession]
  /\ creds \in SUBSET I
  /\ calls = [c \in Slots |-> NoCall]
  /\ pending = <<>>
  /\ nListeners = 0
  /\ fired = NoEv
  /\ ret = NoRet

DefaultMediaMax == 1500000

\* process.env.WEBHOOK_URL || '': not set unless the environment sets it
DefaultWebhookUrl == FALSE

InitWith(I, M) == InitAll(I, M, {DefaultWebhookUrl})

\* values WEBHOOK_MEDIA_MAX is configured with
MediaMaxChoices == 0..MaxMediaMax

InitOver(I) == InitWith(I, {DefaultMediaMax})

(* ------------------------------------------------------------------------ *)
(* createSession                                                            *)
(* ------------------------------------------------------------------------ *)
\* new Client(...), session = {...}, clients.set(id, session), the six
\* client.on(...) registrations and the call of client.initialize()
Register(id) ==
  /\ nHandles < MaxHandles
  /\ nHandles' = nHandles + 1
  /\ clients' = [clients EXCEPT ![id] = nHandles + 1]

Started(id) == [sess EXCEPT ![nHandles + 1] = NewSession(id)]

createSessionCall(c, id) ==
  /\ UNCHANGED <<webhookMediaMax, webhookUrl, restore>>
  /\ FreeSlot(c)
  /\ fired' = NoEv
  /\ UNCHANGED <<creds, pending, nListeners>>
  /\ IF MissingId(id)
       THEN /\ Settle(c, Done("create", id, 0, "missing_session_id"))
            /\ UNCHANGED <<clients, nHandles>>
            /\ Tidy(sess)
       ELSE IF HasSession(id)
         THEN /\ Settle(c, Done("create", id, clients[id], "ok"))
              /\ UNCHANGED <<clients, nHandles>>
              /\ Tidy(sess)
         ELSE /\ Register(id)
              /\ Settle(c, Await("create", id, "await_init", nHandles + 1, "-"))
              /\ Tidy(Started(id))

\* client.initialize() resolved: `return session`
createSessionReturn(c) ==
  /\ UNCHANGED <<webhookMediaMax, webhookUrl, restore>>
  /\ calls[c].pc = "await_init"
  /\ Settle(c, Done(calls[c].op, calls[c].id, calls[c].h, "ok"))
  /\ fired' = NoEv
  /\ UNCHANGED <<clients, nHandles, creds, pending, nListeners>>
  /\ Tidy([sess EXCEPT ![calls[c].h].eng = IF @ = "starting" THEN "running" ELSE @])

\* client.initialize() rejected: the rejection leaves createSession
createSessionThrow(c) ==
  /\ UNCHANGED <<webhookMediaMax, webhookUrl, restore>>
  /\ calls[c].pc = "await_init"
  /\ Settle(c, Done(calls[c].op, calls[c].id, calls[c].h, "engine_error"))
  /\ fired' = NoEv
  /\ UNCHANGED <<clients, nHandles, creds, pending, nListeners>>
  /\ Tidy([sess EXCEPT ![calls[c].h].eng = IF @ = "starting" THEN "failed" ELSE @])

\* LocalAuth keeps the credentials of a running engine under session-<id>
engineStoreCredentials(h) ==
  /\ UNCHANGED <<webhookMediaMax, webhookUrl, restore>>
  /\ h \in 1..nHandles
  /\ Live(h)
  /\ sess[h].id \notin creds
  /\ creds' = creds \cup {sess[h].id}
  /\ fired' = NoEv
  /\ ret' = NoRet
  /\ UNCHANGED <<clients, nHandles, calls, pending, nListeners>>
  /\ Tidy(sess)

(* ------------------------------------------------------------------------ *)
(* deleteSession, reconnect                                                 *)
(* ------------------------------------------------------------------------ *)
deleteSessionCall(c, id) ==
  /\ UNCHANGED <<webhookMediaMax, webhookUrl, restore>>
  /\ FreeSlot(c)
  /\ UNCHANGED <<clients, nHandles, pending, nListeners>>
  /\ IF HasSession(id)
       THEN \* await s.client.destroy()
            /\ Settle(c, Await("delete", id, "await_destroy", clients[id], "-"))
            /\ fired' = NoEv
            /\ UNCHANGED creds
            /\ Tidy(Destroyed(sess, clients[id]))
       ELSE /\ creds' = RemoveDir(id)
            /\ fired' = fireWebhook("session_deleted", 0)
            /\ Settle(c, Done("delete", id, 0, "ok"))
            /\ Tidy(sess)

\* a try without the catch: the rejection of destroy() leaves the function
SwallowedOnlyOk(destroyed) == destroyed

\* try { await s.client.destroy(); } catch {}: the function goes on whether
\* destroy() resolved (destroyed) or was rejected
Swallowed(destroyed) == TRUE

\* destroy() settled
deleteSessionResume(c, destroyed) ==
  /\ UNCHANGED <<webhookMediaMax, webhookUrl, restore>>
  /\ calls[c].pc = "await_destroy"
  /\ calls[c].op = "delete"
  /\ UNCHANGED <<nHandles, pending, nListeners>>
  /\ LET S == [sess EXCEPT ![calls[c].h].eng = IF destroyed THEN @ ELSE "destroy_failed"] IN
       IF Swallowed(destroyed)
         THEN /\ clients' = [clients EXCEPT ![calls[c].id] = 0]
              /\ creds' = RemoveDir(calls[c].id)
              /\ fired' = fireWebhook("session_deleted", calls[c].h)
              /\ Settle(c, Done("delete", calls[c].id, calls[c].h, "ok"))
              /\ Tidy(S)
         ELSE /\ UNCHANGED <<clients, creds>>
              /\ fired' = NoEv
              /\ Settle(c, Done("delete", calls[c].id, calls[c].h, "engine_error"))
              /\ Tidy(S)

reconnectCall(c, id) ==
  /\ UNCHANGED <<webhookMediaMax, webhookUrl, restore>>
  /\ FreeSlot(c)
  /\ fired' = NoEv
  /\ UNCHANGED <<clients, nHandles, creds, pending, nListeners>>
  /\ IF HasSession(id)
       THEN /\ Settle(c, Await("reconnect", id, "await_destroy", clients[id], "-"))
            /\ Tidy(Destroyed(sess, clients[id]))
       ELSE /\ Settle(c, Done("reconnect", id, 0, "session_not_found"))
            /\ Tidy(sess)

\* destroy() settled: clients.delete(id); return createSession(id)
reconnectResume(c) ==
  /\ UNCHANGED <<webhookMediaMax, webhookUrl, restore>>
  /\ calls[c].pc = "await_destroy"
  /\ calls[c].op = "reconnect"
  /\ Register(calls[c].id)
  /\ Settle(c, Await("reconnect", calls[c].id, "await_init", nHandles + 1, "-"))
  /\ fired' = NoEv
  /\ UNCHANGED <<creds, pending, nListeners>>
  /\ Tidy(Started(calls[c].id))

(* ------------------------------------------------------------------------ *)
(* sendText, sendMedia, revokeMessage                                       *)
(* ------------------------------------------------------------------------ *)
\* the guards every send operation starts with; "" when they all pass
SendGuard(id, to, badChat) ==
  IF ~HasSession(id) THEN "session_not_found"
  ELSE IF NotReady(clients[id]) THEN "session_not_ready"
  ELSE IF toChatId(to) = NullChatId THEN badChat
  ELSE ""

sendTextCall(c, id, to) ==
  /\ UNCHANGED <<webhookMediaMax, webhookUrl, restore>>
  /\ FreeSlot(c)
  /\ LET err == SendGuard(id, to, "invalid_recipient") IN
       Settle(c, To(IF err # "" THEN Done("sendText", id, getSession(id), err)
                    ELSE Await("sendText", id, "await_send", clients[id], "text"), to))
  /\ fired' = NoEv
  /\ UNCHANGED <<clients, nHandles, creds, pending, nListeners>>
  /\ Tidy(sess)

\* sendText of the second copy of the module, which normalises with its own
\* toChatId
sendTextCallOlder(c, id, to) ==
  /\ UNCHANGED <<webhookMediaMax, webhookUrl, restore>>
  /\ FreeSlot(c)
  /\ Settle(c, IF ~HasSession(id) THEN To(Done("sendText", id, 0, "session_not_found"), to)
               ELSE IF NotReady(clients[id])
                 THEN To(Done("sendText", id, clients[id], "session_not_ready"), to)
               ELSE IF toChatIdOlder(to) = NullChatId
                 THEN To(Done("sendText", id, clients[id], "invalid_recipient"), to)
               ELSE [Await("sendText", id, "await_send", clients[id], "text") EXCEPT
                       !.to = to, !.chat = toChatIdOlder(to)])
  /\ fired' = NoEv
  /\ UNCHANGED <<clients, nHandles, creds, pending, nListeners>>
  /\ Tidy(sess)

sendMediaCall(c, id, to, hasBuffer, mimeType, asVoice) ==
  /\ UNCHANGED <<webhookMediaMax, webhookUrl, restore>>
  /\ FreeSlot(c)
  /\ LET err == SendGuard(id, to, "invalid_recipient")
         wantVoice == asVoice /\ isOggOpus(mimeType)
     IN Settle(c, To(IF err # "" THEN Done("sendMedia", id, getSession(id), err)
                     ELSE IF ~hasBuffer \/ (mimeType.base = "" /\ mimeType.rest = <<>>)
                       THEN Done("sendMedia", id, clients[id], "invalid_media")
                     ELSE Await("sendMedia", id, "await_send", clients[id],
                                IF wantVoice THEN "voice" ELSE "plain"), to))
  /\ fired' = NoEv
  /\ UNCHANGED <<clients, nHandles, creds, pending, nListeners>>
  /\ Tidy(sess)

\* engines that share one request queue: a request is answered only after the
\* requests of the callers before it
sendMessageResolveInTurn(c) ==
  /\ UNCHANGED <<webhookMediaMax, webhookUrl, restore>>
  /\ calls[c].pc \in {"await_send", "await_send2"}
  /\ \A d \in 1..(c - 1) : calls[d].pc \notin {"await_send", "await_send2"}
  /\ fired' = fireWebhook("message_sent", calls[c].h)
  /\ Settle(c, [calls[c] EXCEPT !.pc = "done", !.res = "ok"])
  /\ UNCHANGED <<clients, nHandles, creds, pending, nListeners>>
  /\ Tidy(sess)

\* client.sendMessage resolved: fireWebhook('message_sent', ...); return msg
sendMessageResolve(c) ==
  /\ UNCHANGED <<webhookMediaMax, webhookUrl, restore>>
  /\ calls[c].pc \in {"await_send", "await_send2"}
  /\ fired' = fireWebhook("message_sent", calls[c].h)
  /\ Settle(c, [calls[c] EXCEPT !.pc = "done", !.res = "ok"])
  /\ UNCHANGED <<clients, nHandles, creds, pending, nListeners>>
  /\ Tidy(sess)

\* client.sendMessage rejected; evalFault: the message matches
\* /Evaluation failed/i or /not a function/i
\* the error the rejected promise carries
ErrorOf(evalFault) == IF evalFault THEN "evaluation_failed" ELSE "engine_error"

\* a catch that retries whatever the error is
shouldFallbackAlways(evalFault) == TRUE

shouldFallback(evalFault) == evalFault

\* a send that takes the session for disconnected when the engine rejects
sendMessageRejectMarks(c, evalFault) ==
  /\ UNCHANGED <<webhookMediaMax, webhookUrl, restore>>
  /\ calls[c].pc \in {"await_send", "await_send2"}
  /\ Settle(c, [calls[c] EXCEPT !.pc = "done", !.res = ErrorOf(evalFault)])
  /\ fired' = NoEv
  /\ UNCHANGED <<clients, nHandles, creds, pending, nListeners>>
  /\ Tidy([sess EXCEPT ![calls[c].h].status = "disconnected"])

\* while the retry is in flight the call record holds the error that was caught
sendMessageReject(c, evalFault) ==
  /\ UNCHANGED <<webhookMediaMax, webhookUrl, restore>>
  /\ calls[c].pc \in {"await_send", "await_send2"}
  /\ Settle(c, IF calls[c].op = "sendMedia" /\ calls[c].pc = "await_send"
                   /\ shouldFallback(evalFault)
                 THEN [calls[c] EXCEPT !.pc = "await_send2", !.arg = "document",
                                       !.res = ErrorOf(evalFault)]
                 ELSE [calls[c] EXCEPT !.pc = "done", !.res = ErrorOf(evalFault)])
  /\ fired' = NoEv
  /\ UNCHANGED <<clients, nHandles, creds, pending, nListeners>>
  /\ Tidy(sess)

EngineHasGetMessageById == TRUE

revokeMessageCall(c, id, chatId, hasMessageId) ==
  /\ UNCHANGED <<webhookMediaMax, webhookUrl, restore>>
  /\ FreeSlot(c)
  /\ LET err == SendGuard(id, chatId, "invalid_chat_id") IN
       Settle(c, To(IF err # "" THEN Done("revoke", id, getSession(id), err)
                    ELSE IF ~hasMessageId
                      THEN Done("revoke", id, clients[id], "invalid_message_id")
                    ELSE IF ~EngineHasGetMessageById
                      THEN Done("revoke", id, clients[id], "revoke_not_supported_by_client")
                    ELSE Await("revoke", id, "await_lookup", clients[id], "-"), chatId))
  /\ fired' = NoEv
  /\ UNCHANGED <<clients, nHandles, creds, pending, nListeners>>
  /\ Tidy(sess)

\* getMessageById settled: found, not found (null) or rejected
revokeLookup(c, outcome) ==
  /\ UNCHANGED <<webhookMediaMax, webhookUrl, restore>>
  /\ calls[c].pc = "await_lookup"
  /\ Settle(c, CASE outcome = "found" -> [calls[c] EXCEPT !.pc = "await_delete"]
                 [] outcome = "absent" ->
                      [calls[c] EXCEPT !.pc = "done", !.res = "message_not_found"]
                 [] OTHER -> [calls[c] EXCEPT !.pc = "done", !.res = "engine_error"])
  /\ fired' = NoEv
  /\ UNCHANGED <<clients, nHandles, creds, pending, nListeners>>
  /\ Tidy(sess)

\* a revoke that reports message_revoked whether the delete succeeded or not
revokeDeleteAlwaysFires(c, ok) ==
  /\ UNCHANGED <<webhookMediaMax, webhookUrl, restore>>
  /\ calls[c].pc = "await_delete"
  /\ Settle(c, IF ok THEN [calls[c] EXCEPT !.pc = "done", !.res = "ok"]
               ELSE [calls[c] EXCEPT !.pc = "done", !.res = "engine_error"])
  /\ fired' = fireWebhook("message_revoked", calls[c].h)
  /\ UNCHANGED <<clients, nHandles, creds, pending, nListeners>>
  /\ Tidy(sess)

\* msg.delete(true) settled
revokeDelete(c, ok) ==
  /\ UNCHANGED <<webhookMediaMax, webhookUrl, restore>>
  /\ calls[c].pc = "await_delete"
  /\ Settle(c, IF ok THEN [calls[c] EXCEPT !.pc = "done", !.res = "ok"]
               ELSE [calls[c] EXCEPT !.pc = "done", !.res = "engine_error"])
  /\ fired' = IF ok THEN fireWebhook("message_revoked", calls[c].h) ELSE NoEv
  /\ UNCHANGED <<clients, nHandles, creds, pending, nListeners>>
  /\ Tidy(sess)

(* ------------------------------------------------------------------------ *)
(* Engine callbacks (the client.on handlers of createSession)               *)
(* ------------------------------------------------------------------------ *)
CanEmit(h) == h \in 1..nHandles /\ Live(h)

CanSuspend == Len(pending) < MaxPending

Cont(h, kind) == [h |-> h, kind |-> kind, late |-> FALSE, media |-> NoMedia]

RemoveAt(q, k) == SubSeq(q, 1, k - 1) \o SubSeq(q, k + 1, Len(q))

\* a bus event of handle h is published now and a listener is there to see it:
\* the handlers of h that were emitted before it (the first upTo entries) and
\* still wait have been overtaken
Overtake(q, h, upTo) ==
  [k \in DOMAIN q |-> IF k <= upTo /\ q[k].h = h /\ nListeners >= 1
                         THEN [q[k] EXCEPT !.late = TRUE] ELSE q[k]]

\* 'qr': the handler suspends at `await toDataURL(qr)`
onQr(h) ==
  /\ UNCHANGED <<webhookMediaMax, webhookUrl, restore>>
  /\ CanEmit(h) /\ CanSuspend
  /\ pending' = Append(pending, Cont(h, "qr"))
  /\ fired' = NoEv
  /\ ret' = NoRet
  /\ UNCHANGED <<clients, nHandles, creds, calls, nListeners>>
  /\ Tidy(sess)

\* toDataURL settled; a throw of bus.emit lands in the handler's catch
onQrResume(k, rendered, t) ==
  /\ UNCHANGED <<webhookMediaMax, webhookUrl, restore>>
  /\ k \in DOMAIN pending /\ pending[k].kind = "qr"
  /\ ret' = NoRet
  /\ UNCHANGED <<clients, nHandles, creds, calls, nListeners>>
  /\ LET p == pending[k] IN
       IF rendered
         THEN /\ pending' = RemoveAt(Overtake(pending, p.h, k - 1), k)
              /\ fired' = BusEmit("qr", p.h, t, p.late)
              /\ Tidy([sess EXCEPT ![p.h].status = "qr"])
         ELSE /\ t = 0
              /\ pending' = RemoveAt(pending, k)
              /\ fired' = NoEv
              /\ Tidy(sess)

onAuthenticated(h, t) ==
  /\ UNCHANGED <<webhookMediaMax, webhookUrl, restore>>
  /\ CanEmit(h)
  /\ pending' = Overtake(pending, h, Len(pending))
  /\ fired' = BusEmit("authenticated", h, t, FALSE)
  /\ ret' = NoRet
  /\ UNCHANGED <<clients, nHandles, creds, calls, nListeners>>
  /\ Tidy([sess EXCEPT ![h].status = "authenticating", ![h].info = TRUE])

\* 'ready': status is set, then the handler suspends at `await client.getMe()`
onReady(h) ==
  /\ UNCHANGED <<webhookMediaMax, webhookUrl, restore>>
  /\ CanEmit(h) /\ CanSuspend
  /\ pending' = Append(pending, Cont(h, "ready"))
  /\ fired' = NoEv
  /\ ret' = NoRet
  /\ UNCHANGED <<clients, nHandles, creds, calls, nListeners>>
  /\ Tidy([sess EXCEPT ![h].status = "ready"])

\* getMe settled: session.me is the identity, or null when getMe failed
onReadyResume(k, gotMe, t) ==
  /\ UNCHANGED <<webhookMediaMax, webhookUrl, restore>>
  /\ k \in DOMAIN pending /\ pending[k].kind = "ready"
  /\ LET p == pending[k] IN
       /\ pending' = RemoveAt(Overtake(pending, p.h, k - 1), k)
       /\ fired' = BusEmit("ready", p.h, t, p.late)
       /\ ret' = NoRet
       /\ UNCHANGED <<clients, nHandles, creds, calls, nListeners>>
       /\ Tidy([sess EXCEPT ![p.h].me = gotMe])

onAuthFailure(h, t) ==
  /\ UNCHANGED <<webhookMediaMax, webhookUrl, restore>>
  /\ CanEmit(h)
  /\ pending' = Overtake(pending, h, Len(pending))
  /\ fired' = BusEmit("auth_failure", h, t, FALSE)
  /\ ret' = NoRet
  /\ UNCHANGED <<clients, nHandles, creds, calls, nListeners>>
  /\ Tidy([sess EXCEPT ![h].status = "auth_failure"])

\* 'disconnected': a throw of bus.emit skips the webhook, the destroy and
\* the clients.delete(id)
onDisconnected(h, t) ==
  /\ UNCHANGED <<webhookMediaMax, webhookUrl, restore>>
  /\ CanEmit(h)
  /\ pending' = Overtake(pending, h, Len(pending))
  /\ fired' = BusEmit("disconnected", h, t, FALSE)
  /\ ret' = NoRet
  /\ UNCHANGED <<nHandles, creds, calls, nListeners>>
  /\ IF t = 0
       THEN /\ clients' = [clients EXCEPT ![sess[h].id] = 0]
            /\ Tidy(Destroyed([sess EXCEPT ![h].status = "disconnected"], h))
       ELSE /\ UNCHANGED clients
            /\ Tidy([sess EXCEPT ![h].status = "disconnected"])

\* Math.floor(media.data.length * 0.75)
approxBytes(len) == (len * 3) \div 4

FitsInline(len) == approxBytes(len) <= webhookMediaMax

\* data.media of an attachment of len base64 characters that was saved
mediaOf(len) ==
  [att |-> TRUE, mode |-> IF FitsInline(len) THEN "inline" ELSE "skipped",
   size |-> approxBytes(len), saved |-> TRUE]

\* an attachment of len base64 characters for which data.media was never set
Unbuilt(len) == [att |-> TRUE, mode |-> "none", size |-> approxBytes(len), saved |-> FALSE]

\* base64 lengths of the attachments the message handlers of Callbacks see
FewLens == {4}

DataLens == 1..MaxDataLen

\* 'message': an own message (fromMe) is published in the same segment; an
\* inbound one suspends at downloadMedia when it has media, at
\* postIncomingToCRM otherwise
onMessage(h, fromMe, hasMedia, t) ==
  /\ UNCHANGED <<webhookMediaMax, webhookUrl, restore>>
  /\ CanEmit(h)
  /\ IF fromMe
       THEN /\ ~hasMedia
            /\ pending' = Overtake(pending, h, Len(pending))
            /\ fired' = BusEmit("message", h, t, FALSE)
       ELSE /\ t = 0
            /\ CanSuspend
            /\ pending' = Append(pending, Cont(h, IF hasMedia THEN "download" ELSE "message"))
            /\ fired' = NoEv
  /\ ret' = NoRet
  /\ UNCHANGED <<clients, nHandles, creds, calls, nListeners>>
  /\ Tidy(sess)

\* downloadMedia settled. "saved": the attachment was written, data.media is
\* built and the handler suspends at postIncomingToCRM; "empty": no data or no
\* mimetype, the handler goes on without media; "save_failed"
\* (saveBase64ToUploads threw) and "rejected" (downloadMedia threw) land in
\* the catch, after which the message is published in this segment
onDownloadResume(k, outcome, len, t) ==
  /\ UNCHANGED <<webhookMediaMax, webhookUrl, restore>>
  /\ k \in DOMAIN pending /\ pending[k].kind = "download"
  /\ ret' = NoRet
  /\ UNCHANGED <<clients, nHandles, creds, calls, nListeners>>
  /\ LET p == pending[k] IN
       IF outcome \in {"saved", "empty"}
         THEN /\ t = 0
              /\ pending' = [pending EXCEPT ![k] =
                                [p EXCEPT !.kind = "message",
                                          !.media = IF outcome = "saved" THEN mediaOf(len)
                                                    ELSE NoMedia]]
              /\ fired' = NoEv
         ELSE /\ pending' = RemoveAt(Overtake(pending, p.h, k - 1), k)
              /\ fired' = [BusEmit("message", p.h, t, p.late) EXCEPT
                             !.media = IF outcome = "save_failed" THEN Unbuilt(len)
                                       ELSE NoMedia]
  /\ Tidy(sess)

\* postIncomingToCRM settled (it catches its own errors): bus.emit and fireWebhook
onMessageResume(k, t) ==
  /\ UNCHANGED <<webhookMediaMax, webhookUrl, restore>>
  /\ k \in DOMAIN pending /\ pending[k].kind = "message"
  /\ pending' = RemoveAt(Overtake(pending, pending[k].h, k - 1), k)
  /\ fired' = [BusEmit("message", pending[k].h, t, pending[k].late) EXCEPT
                 !.media = pending[k].media]
  /\ ret' = NoRet
  /\ UNCHANGED <<clients, nHandles, creds, calls, nListeners>>
  /\ Tidy(sess)

(* ------------------------------------------------------------------------ *)
(* Socket bridge                                                            *)
(* ------------------------------------------------------------------------ *)
\* a connection handler that sends the new socket the last event again
ioConnectionReplay ==
  /\ UNCHANGED <<webhookMediaMax, webhookUrl, restore>>
  /\ nListeners < MaxConns
  /\ nListeners' = nListeners + 1
  /\ fired' = [fired EXCEPT !.recv = nListeners + 1]
  /\ ret' = NoRet
  /\ UNCHANGED <<clients, nHandles, creds, calls, pending>>
  /\ Tidy(sess)

\* io.on('connection'): socket.emit('sessions', listSessions()), then every
\* connection adds one forward listener per topic; nothing published earlier
\* is sent again
ioConnection ==
  /\ UNCHANGED <<webhookMediaMax, webhookUrl, restore>>
  /\ nListeners < MaxConns
  /\ nListeners' = nListeners + 1
  /\ fired' = [NoEv EXCEPT !.kind = "sessions", !.list = listSessions]
  /\ ret' = NoRet
  /\ UNCHANGED <<clients, nHandles, creds, calls, pending>>
  /\ Tidy(sess)

(* ------------------------------------------------------------------------ *)
(* Webhook delivery                                                         *)
(* ------------------------------------------------------------------------ *)
\* a dispatcher without the try/catch: the rejection reaches the operation
axiosPostSettlePropagates(ok) ==
  /\ UNCHANGED <<webhookMediaMax, webhookUrl, restore>>
  /\ fired.post = "inflight"
  /\ fired' = [fired EXCEPT !.post = IF ok THEN "ok" ELSE "failed"]
  /\ ret' = IF ok \/ ret.op = "-" THEN ret ELSE [ret EXCEPT !.res = "webhook_error"]
  /\ UNCHANGED <<clients, nHandles, creds, calls, pending, nListeners>>
  /\ Tidy(sess)

\* the axios.post of the event just handed to fireWebhook settled: resolved
\* (ok), or rejected or timed out, which the catch logs. Nobody awaits the
\* promise of fireWebhook, and nothing is posted again.
axiosPostSettle(ok) ==
  /\ UNCHANGED <<webhookMediaMax, webhookUrl, restore>>
  /\ fired.post = "inflight"
  /\ fired' = [fired EXCEPT !.post = IF ok THEN "ok" ELSE "failed"]
  /\ ret' = ret
  /\ UNCHANGED <<clients, nHandles, creds, calls, pending, nListeners>>
  /\ Tidy(sess)

(* ------------------------------------------------------------------------ *)
(* restoreAllSessions                                                       *)
(* ------------------------------------------------------------------------ *)
Range(q) == {q[k] : k \in DOMAIN q}

\* the orders in which readdirSync may list the directories of D
Orderings(D) == {q \in [1..Cardinality(D) -> D] : Range(q) = D}

\* a catch that gives the scan up
AfterCatchAbort(todo) == <<>>

\* catch (e) { console.error(...) }: the loop goes on with the next entry
AfterCatch(todo) == todo

\* an ids.push that does not depend on the outcome
PushedAlways(ids, id, ok) == Append(ids, id)

\* ids.push(id) follows the await inside the try: it runs only when
\* createSession resolved
Pushed(ids, id, ok) == IF ok THEN Append(ids, id) ELSE ids

\* the loop of call record R reaches the next entry (or its end) with list ids
\* and log lg: it
\* calls createSession on the entry and suspends at the await, or returns ids
RestoreLoop(R, todo, ids, lg, S) ==
  IF todo = <<>>
    THEN /\ restore' = [R EXCEPT !.pc = "done", !.todo = <<>>, !.cur = "-", !.h = 0,
                                        !.ok = FALSE, !.ids = ids, !.log = lg]
         /\ UNCHANGED <<clients, nHandles>>
         /\ Tidy(S)
    ELSE LET id == Head(todo) IN
      IF id = EmptyId \/ HasSession(id)
        THEN /\ restore' = [R EXCEPT !.pc = "await_settled", !.todo = Tail(todo),
                                            !.cur = id, !.h = getSession(id),
                                            !.ok = (id # EmptyId), !.ids = ids, !.log = lg]
             /\ UNCHANGED <<clients, nHandles>>
             /\ Tidy(S)
        ELSE /\ Register(id)
             /\ restore' = [R EXCEPT !.pc = "await_init", !.todo = Tail(todo),
                                            !.cur = id, !.h = nHandles + 1,
                                            !.ok = FALSE, !.ids = ids, !.log = lg]
             /\ Tidy([S EXCEPT ![nHandles + 1] = NewSession(id)])

\* the call at boot: readdirSync, then the first turn of the loop
restoreAllSessionsCall(order) ==
  /\ UNCHANGED <<webhookMediaMax, webhookUrl>>
  /\ restore.pc = "idle"
  /\ nHandles = 0
  /\ order \in Orderings(creds)
  /\ fired' = NoEv
  /\ ret' = NoRet
  /\ UNCHANGED <<creds, calls, pending, nListeners>>
  /\ RestoreLoop([restore EXCEPT !.dirs = order], order, <<>>, <<>>, sess)

\* the awaited createSession settled: ok tells whether it resolved. One that
\* waits for initialize() settles as the engine decides, one that returned
\* the registered session or threw missing_session_id has settled already.
restoreResume(ok) ==
  /\ UNCHANGED <<webhookMediaMax, webhookUrl>>
  /\ restore.pc \in {"await_init", "await_settled"}
  /\ restore.pc = "await_settled" => ok = restore.ok
  /\ fired' = NoEv
  /\ ret' = NoRet
  /\ UNCHANGED <<creds, calls, pending, nListeners>>
  /\ LET S == IF restore.pc = "await_init"
                THEN [sess EXCEPT ![restore.h].eng =
                        IF @ = "starting" THEN (IF ok THEN "running" ELSE "failed") ELSE @]
                ELSE sess
         lg == Append(restore.log, [id |-> restore.cur, ok |-> ok])
     IN RestoreLoop(restore, IF ok THEN restore.todo ELSE AfterCatch(restore.todo),
                    Pushed(restore.ids, restore.cur, ok), lg, S)

(* ------------------------------------------------------------------------ *)
(* Specifications                                                           *)
(* ------------------------------------------------------------------------ *)
Throwers == 0..nListeners

Lifecycle(I, S) ==
  \/ \E c \in S, id \in I \cup {EmptyId} : createSessionCall(c, id)
  \/ \E c \in S : createSessionReturn(c)
  \/ \E c \in S : createSessionThrow(c)
  \/ \E h \in Handles : engineStoreCredentials(h)
  \/ \E c \in S, id \in I : deleteSessionCall(c, id)
  \/ \E c \in S, destroyed \in BOOLEAN : deleteSessionResume(c, destroyed)
  \/ \E c \in S, id \in I : reconnectCall(c, id)
  \/ \E c \in S : reconnectResume(c)

Sending(I, S, T) ==
  \/ \E c \in S, id \in I, to \in T : sendTextCall(c, id, to)
  \/ \E c \in S, id \in I, to \in T, hasBuffer \in BOOLEAN,
        mimeType \in MediaMimes, asVoice \in BOOLEAN :
          sendMediaCall(c, id, to, hasBuffer, mimeType, asVoice)
  \/ \E c \in S : sendMessageResolve(c)
  \/ \E c \in S, evalFault \in BOOLEAN : sendMessageReject(c, evalFault)
  \/ \E c \in S, id \in I, chatId \in T, hasMessageId \in BOOLEAN :
          revokeMessageCall(c, id, chatId, hasMessageId)
  \/ \E c \in S, outcome \in {"found", "absent", "error"} : revokeLookup(c, outcome)
  \/ \E c \in S, ok \in BOOLEAN : revokeDelete(c, ok)

DownloadOutcomes == {"saved", "empty", "save_failed", "rejected"}

MessageHandlers(L) ==
  \/ \E h \in Handles, fromMe \in BOOLEAN, hasMedia \in BOOLEAN, t \in Throwers :
        onMessage(h, fromMe, hasMedia, t)
  \/ \E k \in DOMAIN pending, outcome \in DownloadOutcomes, len \in L, t \in Throwers :
        onDownloadResume(k, outcome, len, t)
  \/ \E k \in DOMAIN pending, t \in Throwers : onMessageResume(k, t)

Callbacks ==
  \/ \E h \in Handles : onQr(h)
  \/ \E k \in DOMAIN pending, rendered \in BOOLEAN, t \in Throwers : onQrResume(k, rendered, t)
  \/ \E h \in Handles, t \in Throwers : onAuthenticated(h, t)
  \/ \E h \in Handles : onReady(h)
  \/ \E k \in DOMAIN pending, gotMe \in BOOLEAN, t \in Throwers : onReadyResume(k, gotMe, t)
  \/ \E h \in Handles, t \in Throwers : onAuthFailure(h, t)
  \/ \E h \in Handles, t \in Throwers : onDisconnected(h, t)
  \/ MessageHandlers(FewLens)

Next == Lifecycle(Ids, Slots) \/ Sending(Ids, Slots, ToInputs) \/ Callbacks \/ ioConnection

Init == InitOver(Ids)

Spec == Init /\ [][Next]_vars

SyncCallbacks ==
  \/ \E h \in Handles, t \in Throwers : onAuthenticated(h, t)
  \/ \E h \in Handles, t \in Throwers : onAuthFailure(h, t)
  \/ \E h \in Handles, t \in Throwers : onDisconnected(h, t)

InitOne == InitOver(OneId)

NextLife == Lifecycle(OneId, Slots) \/ SyncCallbacks \/ ioConnection

SpecLife == InitOne /\ [][NextLife]_vars

NextEvents ==
  \/ \E c \in Slots, id \in OneId : createSessionCall(c, id)
  \/ \E c \in Slots : createSessionReturn(c)
  \/ \E c \in Slots : createSessionThrow(c)
  \/ Callbacks
  \/ ioConnection

SpecEvents == InitOne /\ [][NextEvents]_vars

\* one caller at a time
SerialSlots == {1}

\* directories found at boot: those of the ids and a malformed one
BootDirs == Ids \cup {EmptyId}

InitRestore == InitWith(BootDirs, {DefaultMediaMax})

NextRestore ==
  \/ \E order \in Orderings(creds) : restoreAllSessionsCall(order)
  \/ \E ok \in BOOLEAN : restoreResume(ok)
  \/ \E c \in SerialSlots, id \in Ids : createSessionCall(c, id)
  \/ \E c \in SerialSlots : createSessionReturn(c)
  \/ \E c \in SerialSlots : createSessionThrow(c)
  \/ SyncCallbacks

SpecRestore == InitRestore /\ [][NextRestore]_vars

\* one session that becomes ready, and the send operations with every recipient
NextSend ==
  \/ \E c \in SerialSlots, id \in OneId : createSessionCall(c, id)
  \/ \E c \in SerialSlots : createSessionReturn(c)
  \/ \E h \in Handles : onReady(h)
  \/ \E k \in DOMAIN pending, gotMe \in BOOLEAN, t \in Throwers : onReadyResume(k, gotMe, t)
  \/ \E h \in Handles, t \in Throwers : onAuthFailure(h, t)
  \/ Sending(OneId, SerialSlots, RawInputs)

SpecSend == InitOne /\ [][NextSend]_vars

\* one session that becomes ready, and send operations of several callers
NextOverlap ==
  \/ \E c \in Slots, id \in OneId : createSessionCall(c, id)
  \/ \E c \in Slots : createSessionReturn(c)
  \/ \E h \in Handles : onReady(h)
  \/ \E k \in DOMAIN pending, gotMe \in BOOLEAN, t \in Throwers : onReadyResume(k, gotMe, t)
  \/ Sending(OneId, Slots, ToInputs)

SpecOverlap == InitOne /\ [][NextOverlap]_vars

\* the operations that report an event, every callback and the sockets
NextChannels ==
  \/ \E c \in SerialSlots, id \in OneId : createSessionCall(c, id)
  \/ \E c \in SerialSlots : createSessionReturn(c)
  \/ \E c \in SerialSlots, id \in OneId : deleteSessionCall(c, id)
  \/ \E c \in SerialSlots, destroyed \in BOOLEAN : deleteSessionResume(c, destroyed)
  \/ \E c \in SerialSlots, id \in OneId, to \in ToInputs : sendTextCall(c, id, to)
  \/ \E c \in SerialSlots : sendMessageResolve(c)
  \/ \E c \in SerialSlots, id \in OneId, chatId \in ToInputs, hasMessageId \in BOOLEAN :
          revokeMessageCall(c, id, chatId, hasMessageId)
  \/ \E c \in SerialSlots, outcome \in {"found", "absent", "error"} : revokeLookup(c, outcome)
  \/ \E c \in SerialSlots, ok \in BOOLEAN : revokeDelete(c, ok)
  \/ Callbacks
  \/ ioConnection

SpecChannels == InitOne /\ [][NextChannels]_vars

\* one caller at a time, the callbacks that set a status, and the sockets
NextFrame ==
  \/ Lifecycle(OneId, SerialSlots)
  \/ Sending(OneId, SerialSlots, ToInputs)
  \/ SyncCallbacks
  \/ \E h \in Handles : onReady(h)
  \/ \E k \in DOMAIN pending, gotMe \in BOOLEAN, t \in Throwers : onReadyResume(k, gotMe, t)
  \/ ioConnection

SpecFrame == InitOne /\ [][NextFrame]_vars

\* the boot: restoreAllSessions and the callbacks of the engines it starts
NextBoot ==
  \/ \E order \in Orderings(creds) : restoreAllSessionsCall(order)
  \/ \E ok \in BOOLEAN : restoreResume(ok)
  \/ \E h \in Handles, t \in Throwers : onAuthenticated(h, t)
  \/ \E h \in Handles, t \in Throwers : onAuthFailure(h, t)

\* server.js calls restoreAllSessions when the module loads, and the event
\* loop runs the continuation of an await whose promise has settled. Whether
\* client.initialize() ever settles is up to the engine: nothing is assumed
\* about a createSession that waits for it.
FairBoot ==
  /\ WF_vars(\E order \in Orderings(creds) : restoreAllSessionsCall(order))
  /\ WF_vars(restore.pc = "await_settled" /\ \E ok \in BOOLEAN : restoreResume(ok))

SpecBoot == InitRestore /\ [][NextBoot]_vars /\ FairBoot

\* the second copy of the module: one session that becomes ready, and its
\* sendText with every recipient
NextOlder ==
  \/ \E c \in Slots, id \in OneId : createSessionCall(c, id)
  \/ \E c \in Slots : createSessionReturn(c)
  \/ \E h \in Handles : onReady(h)
  \/ \E k \in DOMAIN pending, gotMe \in BOOLEAN, t \in Throwers : onReadyResume(k, gotMe, t)
  \/ \E c \in Slots, id \in OneId, to \in RawInputs : sendTextCallOlder(c, id, to)
  \/ \E c \in Slots : sendMessageResolve(c)
  \/ \E c \in Slots, evalFault \in BOOLEAN : sendMessageReject(c, evalFault)

SpecOlder == InitOne /\ [][NextOlder]_vars

\* one session that becomes ready, and sendMedia with every MIME type
NextVoice ==
  \/ \E c \in Slots, id \in OneId : createSessionCall(c, id)
  \/ \E c \in Slots : createSessionReturn(c)
  \/ \E h \in Handles : onReady(h)
  \/ \E k \in DOMAIN pending, gotMe \in BOOLEAN, t \in Throwers : onReadyResume(k, gotMe, t)
  \/ \E c \in Slots, id \in OneId, to \in ToInputs, hasBuffer \in BOOLEAN,
        mimeType \in MimeInputs, asVoice \in BOOLEAN :
          sendMediaCall(c, id, to, hasBuffer, mimeType, asVoice)
  \/ \E c \in Slots : sendMessageResolve(c)
  \/ \E c \in Slots, evalFault \in BOOLEAN : sendMessageReject(c, evalFault)

SpecVoice == InitOne /\ [][NextVoice]_vars

\* session A, whose engine never answers a send, and another session B
StuckId == "a"
OtherId == "b"

InitTwo == InitOver(Ids)

\* the requests made to the engine of B settle; those made to the engine of A
\* do not
NextStuck ==
  \/ \E c \in Slots, id \in Ids : createSessionCall(c, id)
  \/ \E c \in Slots : createSessionReturn(c)
  \/ \E h \in Handles : onReady(h)
  \/ \E k \in DOMAIN pending, gotMe \in BOOLEAN, t \in Throwers : onReadyResume(k, gotMe, t)
  \/ \E c \in Slots, id \in Ids : sendTextCall(c, id, <<"1", "5">>)
  \/ \E c \in Slots : calls[c].id # StuckId /\ sendMessageResolve(c)
  \/ \E c \in Slots : deleteSessionCall(c, OtherId)
  \/ \E c \in Slots, destroyed \in BOOLEAN : deleteSessionResume(c, destroyed)

\* the engine of B answers every request made to it, and the event loop runs
\* the continuation of every await that settled
ServesOther(c) ==
  /\ calls[c].id = OtherId
  /\ \/ createSessionReturn(c)
     \/ sendMessageResolve(c)
     \/ \E destroyed \in BOOLEAN : deleteSessionResume(c, destroyed)

SpecStuck == InitTwo /\ [][NextStuck]_vars /\ \A c \in Slots : WF_vars(ServesOther(c))

\* two ids, one caller at a time, and the callbacks of their engines
NextPair ==
  \/ Lifecycle(Ids, SerialSlots)
  \/ Sending(Ids, SerialSlots, {<<"1", "5">>})
  \/ \E h \in Handles, t \in Throwers : onDisconnected(h, t)
  \/ \E h \in Handles : onReady(h)
  \/ \E k \in DOMAIN pending, gotMe \in BOOLEAN, t \in Throwers : onReadyResume(k, gotMe, t)

SpecPair == InitTwo /\ [][NextPair]_vars

\* WEBHOOK_URL set or not
InitHooks == InitAll(OneId, {DefaultMediaMax}, BOOLEAN)

\* the operations and callbacks that hand an event to fireWebhook, and the
\* deliveries
NextHooks ==
  \/ Lifecycle(OneId, SerialSlots)
  \/ Sending(OneId, SerialSlots, ToInputs)
  \/ SyncCallbacks
  \/ \E h \in Handles : onReady(h)
  \/ \E k \in DOMAIN pending, gotMe \in BOOLEAN, t \in Throwers : onReadyResume(k, gotMe, t)
  \/ ioConnection
  \/ \E ok \in BOOLEAN : axiosPostSettle(ok)

SpecHooks == InitHooks /\ [][NextHooks]_vars

InitMedia == InitWith(OneId, MediaMaxChoices)

NextMedia ==
  \/ \E c \in SerialSlots, id \in OneId : createSessionCall(c, id)
  \/ \E c \in SerialSlots : createSessionReturn(c)
  \/ MessageHandlers(DataLens)
  \/ ioConnection

SpecMedia == InitMedia /\ [][NextMedia]_vars


NextSerial == Lifecycle(OneId, SerialSlots) \/ Sending(OneId, SerialSlots, ToInputs) \/ Callbacks \/ ioConnection

SpecSerial == InitOne /\ [][NextSerial]_vars

(* ------------------------------------------------------------------------ *)
(* Properties                                                               *)
(* ------------------------------------------------------------------------ *)
Registered(i) == clients[i] # 0

\* the step is the entry of a call of op for id: it either takes a slot and
\* suspends, or returns or throws before its first await
Enters(op, id) ==
  \/ \E c \in Slots : calls[c].pc = "idle" /\ calls'[c].pc # "idle" /\ calls'[c].op = op
                        /\ calls'[c].id = id
  \/ calls' = calls /\ ret'.op = op /\ ret'.id = id

\* C1: a create(id) that arrives while id is registered (in particular while an
\* earlier create(id) is still starting its engine) returns the registered
\* session and constructs no engine handle; a step constructs at most one
\* handle, and the handle it constructs is in the registry when the step ends
\* (the existence check and the insertion are one synchronous segment).
C1_CreateOnce ==
  [][ /\ \A i \in Ids :
           (Enters("create", i) /\ Registered(i)) =>
             /\ nHandles' = nHandles
             /\ clients' = clients
             /\ ret'.res = "ok"
             /\ ret'.h = clients[i]
      /\ \A i \in Ids :
           (Enters("create", i) /\ ~Registered(i)) =>
             /\ nHandles' = nHandles + 1
             /\ clients'[i] = nHandles'
      /\ nHandles' \in {nHandles, nHandles + 1}
      /\ nHandles' # nHandles => \E i \in Ids : clients'[i] = nHandles' /\ sess'[nHandles'].id = i
    ]_vars

\* a second create("a") has returned the session whose engine the first one,
\* still in flight, is starting; one handle exists
C1_Witness ==
  /\ ret.op = "create" /\ ret.res = "ok" /\ ret.h = 1
  /\ \E c \in Slots : calls[c].op = "create" /\ calls[c].pc = "await_init" /\ calls[c].h = 1
                        /\ calls[c].id = ret.id
  /\ sess[1].eng = "starting"
  /\ nHandles = 1
  /\ clients[ret.id] = 1

LiveHandlesOf(i) == {h \in 1..nHandles : sess[h].id = i /\ sess[h].eng \in {"starting", "running"}}

\* C2: for every id there is at most one engine handle that has been started
\* and not torn down, and it is the handle of the session registered under the id.
C2_OneLiveHandle ==
  \A i \in Ids :
    /\ Cardinality(LiveHandlesOf(i)) <= 1
    /\ \A h \in LiveHandlesOf(i) : clients[i] = h

SendOps == {"sendText", "sendMedia", "revoke"}

\* the step is the entry of a send operation for id that reaches the engine
\* (client.sendMessage or client.getMessageById is called)
InvokesEngine(i) ==
  \E c \in Slots : /\ calls[c].pc = "idle"
                   /\ calls'[c].op \in SendOps /\ calls'[c].id = i
                   /\ calls'[c].pc \in {"await_send", "await_lookup"}

\* C3: sendText, sendMedia and revoke on an id without a registered session
\* throw session_not_found (SessionNotFound), on a registered session whose
\* status is not ready they throw session_not_ready (SessionNotReady), whatever
\* the other arguments are; in both cases no request reaches the engine.
C3_SendGuards ==
  [][ \A i \in Ids, op \in SendOps :
        /\ (Enters(op, i) /\ ~Registered(i)) =>
             (calls' = calls /\ ret'.res = "session_not_found")
        /\ (Enters(op, i) /\ Registered(i) /\ sess[clients[i]].status # "ready") =>
             (calls' = calls /\ ret'.res = "session_not_ready")
        /\ (~Registered(i) \/ sess[clients[i]].status # "ready") => ~InvokesEngine(i)
    ]_vars

\* a revoke was refused on a registered session that a throwing listener left
\* in the registry with status disconnected
C3_Witness ==
  /\ ret.op = "revoke" /\ ret.res = "session_not_ready"
  /\ Registered(ret.id)
  /\ sess[clients[ret.id]].status = "disconnected"

\* C4: every deleteSession(id) that returns, returns true, and when it returns
\* no session is registered for id and the credential directory of id is
\* absent; this holds whether id was registered (in any status) or not, so
\* also for a second delete in a row.
C4_DeleteIdempotent ==
  ret.op = "delete" => (ret.res = "ok" /\ ~Registered(ret.id) /\ ret.id \notin creds)

\* a delete returned for an id that had no session any more: its session had
\* been registered, torn down and removed before
C4_Witness ==
  /\ ret.op = "delete" /\ ret.res = "ok" /\ ret.h = 0
  /\ \E h \in 1..nHandles : sess[h].id = ret.id /\ sess[h].eng = "destroyed"
  /\ ~Registered(ret.id)
  /\ ret.id \notin creds

\* C5: for one session, the events the bus publishes follow the order in which
\* the engine emitted their callbacks: no event reaches the listeners after an
\* event of the same handle whose callback the engine emitted later.
C5_PublishedInOrder == ~(fired.bus /\ fired.recv >= 1 /\ fired.late)

\* C6: when a listener throws during a publication, every listener of the
\* topic has still been called and the publishing handler has still run its
\* remaining steps: the webhook dispatch and, for disconnected, the destroy of
\* the engine and the removal of the registry entry.
C6_ListenerIsolation ==
  fired.threw =>
    /\ fired.recv = nListeners
    /\ fired.hook
    /\ fired.kind = "disconnected" =>
         (sess[fired.h].eng = "destroyed" /\ \A i \in Ids : clients[i] # fired.h)

C8_MeOnlyWhenReady ==
  \A i \in Ids :
    (Registered(i) /\ sess[clients[i]].status # "ready") => ~sess[clients[i]].me

\* C9: the disconnected callback sets the status to disconnected, publishes,
\* destroys its engine and removes the entry of its id, so that getSession
\* finds nothing afterwards; no step of another callback takes an entry out
\* of the registry (only disconnected and deleteSession do), and after
\* auth_failure the session is registered with status auth_failure.
C9_OnlyDisconnectedDeregisters ==
  [][ /\ (fired'.bus /\ fired'.kind = "disconnected") =>
           /\ sess'[fired'.h].status = "disconnected"
           /\ sess'[fired'.h].eng = "destroyed"
           /\ clients'[sess[fired'.h].id] = 0
      /\ \A i \in Ids :
           (clients[i] # 0 /\ clients'[i] = 0) =>
             (fired'.kind = "disconnected" \/ ret'.op = "delete")
      /\ (fired'.bus /\ fired'.kind = "auth_failure") =>
           /\ clients'[sess[fired'.h].id] = fired'.h
           /\ sess'[fired'.h].status = "auth_failure"
    ]_vars

\* C10: a callback of a handle that is not the handle of the session registered
\* under its id leaves that session registered and its status as it was.
C10_StaleCallbackHarmless ==
  [][ \A i \in Ids :
        (fired'.bus /\ sess[fired'.h].id = i /\ Registered(i) /\ clients[i] # fired'.h) =>
          /\ clients'[i] = clients[i]
          /\ sess'[clients[i]].status = sess[clients[i]].status
    ]_vars

\* C11: when createSession throws because initialize() failed, no session is
\* left in the registry for its id (getSession finds nothing, so a later
\* createSession builds a new engine).
C11_FailedStartLeavesNothing ==
  (ret.op = "create" /\ ret.res = "engine_error") => getSession(ret.id) = 0

\* C12: a sendMedia call sends at most twice. The second send is made only
\* from the catch of the first one, only when the caught error is an
\* evaluation fault, and with the document options (sendMediaAsDocument on,
\* sendAudioAsVoice off); an evaluation fault of the first send is never
\* thrown to the caller, any other error of the first send is thrown and ends
\* the call; the second send ends the call with its result or its error.
C12_FallbackOnce ==
  [][ \A c \in Slots :
        /\ (calls'[c].pc = "await_send2" /\ calls'[c] # calls[c]) =>
             /\ calls[c].pc = "await_send" /\ calls[c].op = "sendMedia"
             /\ calls'[c].op = "sendMedia" /\ calls'[c].id = calls[c].id
             /\ calls'[c].h = calls[c].h
             /\ calls'[c].res = "evaluation_failed"
             /\ calls'[c].arg = "document"
             /\ ret' = NoRet
        /\ (calls[c].pc = "await_send" /\ calls[c].op = "sendMedia" /\ calls'[c] # calls[c]) =>
             \/ calls'[c].pc = "await_send2"
             \/ /\ calls'[c] = NoCall
                /\ ret'.op = "sendMedia" /\ ret'.res \in {"ok", "engine_error"}
        /\ (calls[c].pc = "await_send2" /\ calls'[c] # calls[c]) =>
             /\ calls'[c] = NoCall
             /\ ret'.op = "sendMedia"
             /\ ret'.res \in {"ok", "engine_error", "evaluation_failed"}
    ]_vars

\* the second send of a sendMedia call is in flight, as a document, after the
\* first one failed with an evaluation fault
C12_Witness ==
  \E c \in Slots :
    /\ calls[c].op = "sendMedia" /\ calls[c].pc = "await_send2"
    /\ calls[c].arg = "document" /\ calls[c].res = "evaluation_failed"
    /\ clients[calls[c].id] = calls[c].h

\* C13: every attachment of an inbound message that was downloaded carries
\* its data inline exactly when its size (the estimate taken from the base64
\* length) is at most WEBHOOK_MEDIA_MAX, and is marked skipped, without data,
\* exactly when its size is above it.
C13_InlineThreshold ==
  (fired.kind = "message" /\ fired.media.att) =>
    /\ fired.media.mode = "inline" <=> fired.media.size <= webhookMediaMax
    /\ fired.media.mode = "skipped" <=> fired.media.size > webhookMediaMax

IdsOf(lg) == [k \in DOMAIN lg |-> lg[k].id]

Succeeded(lg) == IdsOf(SelectSeq(lg, LAMBDA e : e.ok))

\* C14: when restoreAllSessions returns, createSession has been called for
\* every directory readdirSync listed, in that order, whatever failed on the
\* way, and the list it returns holds exactly the ids whose createSession
\* resolved.
C14_RestoreScansAll ==
  restore.pc = "done" =>
    /\ IdsOf(restore.log) = restore.dirs
    /\ restore.ids = Succeeded(restore.log)

\* restoreAllSessions returned after a createSession that failed was followed
\* by one that resolved
C14_Witness ==
  /\ restore.pc = "done"
  /\ \E j, k \in DOMAIN restore.log :
       j < k /\ ~restore.log[j].ok /\ restore.log[k].ok
  /\ Len(restore.ids) >= 1
  /\ Len(restore.ids) < Len(restore.dirs)

\* C15 (as stated): the list restoreAllSessions returns holds every id it
\* called createSession for, whether that call resolved or not.
C15_ReturnsAttempted ==
  restore.pc = "done" =>
    \A k \in DOMAIN restore.log : restore.log[k].id \in Range(restore.ids)

\* C15 (amended): at every moment the list restoreAllSessions builds holds,
\* in the order of the scan, the ids whose createSession resolved; an id whose
\* createSession failed is never in it, and an id is in it only after its
\* createSession settled.
C15_ReturnsSucceeded ==
  /\ \A k \in DOMAIN restore.log :
       restore.log[k].ok <=> restore.log[k].id \in Range(restore.ids)
  /\ Range(restore.ids) \subseteq Range(IdsOf(restore.log))
  /\ Len(restore.ids) = Cardinality(Range(restore.ids))

\* restoreAllSessions returned a list without an id it had called
\* createSession for, because initialize() of that id was rejected
C15_Witness ==
  /\ restore.pc = "done"
  /\ \E k \in DOMAIN restore.log :
       /\ ~restore.log[k].ok
       /\ restore.log[k].id \in Ids
       /\ restore.log[k].id \notin Range(restore.ids)
  /\ restore.ids # <<>>

\* recipients that cannot be normalised: the empty string, one without digits
\* and without a chat suffix, and a blank one
BadRecipients == { <<>>, <<"a", "b">>, <<" ">> }

\* the entry of op for id, on a ready session, with a recipient that cannot
\* be normalised
BadRecipientCall(op, i) ==
  /\ Enters(op, i)
  /\ Registered(i) /\ sess[clients[i]].status = "ready"
  /\ \/ calls' = calls /\ ret'.to \in BadRecipients
     \/ \E c \in Slots : calls[c].pc = "idle" /\ calls'[c].pc # "idle"
                            /\ calls'[c].to \in BadRecipients

\* C16 (as stated): on a ready session sendText, sendMedia and revokeMessage
\* called with a recipient that cannot be normalised all throw the same error,
\* invalid_recipient, and do not reach the engine.
C16_SameRecipientError ==
  [][ \A i \in Ids, op \in SendOps :
        BadRecipientCall(op, i) => (calls' = calls /\ ret'.res = "invalid_recipient")
    ]_vars

\* C16 (amended): on a ready session a recipient that cannot be normalised
\* makes sendText and sendMedia throw invalid_recipient and revokeMessage
\* throw invalid_chat_id, in the segment of the call and before any request
\* reaches the engine.
C16_RecipientErrors ==
  [][ \A i \in Ids, op \in SendOps :
        BadRecipientCall(op, i) =>
          /\ calls' = calls
          /\ ret'.op = op
          /\ ret'.res = IF op = "revoke" THEN "invalid_chat_id" ELSE "invalid_recipient"
          /\ ~InvokesEngine(i)
          /\ fired' = NoEv
    ]_vars

\* revokeMessage was refused on a ready session for a blank chat id
C16_Witness ==
  /\ ret.op = "revoke" /\ ret.res = "invalid_chat_id"
  /\ ret.to = <<" ">>
  /\ Registered(ret.id) /\ sess[clients[ret.id]].status = "ready"

\* the step starts no engine and stops none
SameEngines ==
  \A h \in Handles :
    \/ sess'[h].eng = sess[h].eng
    \/ {sess[h].eng, sess'[h].eng} \subseteq {"destroyed", "destroy_failed"}

\* C17: createSession with an empty id throws missing_session_id in the
\* segment of the call; it never suspends, constructs no Client, and leaves
\* the registry and every session as they were.
C17_EmptyIdRejected ==
  [][ /\ \A c \in Slots : calls'[c].op = "create" => calls'[c].id # EmptyId
      /\ (ret'.op = "create" /\ ret'.id = EmptyId) =>
           /\ ret'.res = "missing_session_id"
           /\ calls' = calls
           /\ nHandles' = nHandles
           /\ clients' = clients
           /\ creds' = creds
           /\ SameEngines
           /\ \A i \in Ids : Registered(i) => sess'[clients[i]] = sess[clients[i]]
    ]_vars

\* createSession('') was refused while a session was registered and running
C17_Witness ==
  /\ ret.op = "create" /\ ret.id = EmptyId /\ ret.res = "missing_session_id"
  /\ nHandles = 1
  /\ \E i \in Ids : clients[i] = 1 /\ sess[1].eng = "running"

\* C18: a deleteSession whose destroy() was rejected still returns true, with
\* the entry of its id removed, the credential directory of its id deleted
\* and session_deleted dispatched.
C18_DeleteSwallowsTeardownFailure ==
  (ret.op = "delete" /\ ret.h # 0 /\ sess[ret.h].eng = "destroy_failed") =>
    /\ ret.res = "ok"
    /\ clients[ret.id] = 0
    /\ ret.id \notin creds
    /\ fired.kind = "session_deleted" /\ fired.hook

\* a deleteSession returned true although the destroy() of its session, which
\* had stored credentials, was rejected
C18_Witness ==
  /\ ret.op = "delete" /\ ret.res = "ok" /\ ret.h = 1
  /\ sess[1].eng = "destroy_failed"
  /\ clients[ret.id] = 0
  /\ creds = {}
  /\ fired.kind = "session_deleted"

\* C19: reconnect on a registered id calls destroy() on the engine of the
\* registered session and, once that has settled, registers under the id a
\* new session with a newly constructed Client that is starting; no step of
\* reconnect touches the credential directories. On an id without an entry it
\* throws session_not_found and changes nothing.
C19_ReconnectFrame ==
  [][ /\ \A c \in Slots :
           /\ (calls[c].pc = "idle" /\ calls'[c].op = "reconnect") =>
                /\ Registered(calls'[c].id)
                /\ calls'[c].pc = "await_destroy"
                /\ calls'[c].h = clients[calls'[c].id]
                /\ sess'[calls'[c].h].eng = "destroyed"
                /\ clients' = clients /\ nHandles' = nHandles
           /\ (calls[c].op = "reconnect" /\ calls[c].pc = "await_destroy"
                 /\ calls'[c] # calls[c]) =>
                /\ calls'[c].pc = "await_init" /\ calls'[c].op = "reconnect"
                /\ nHandles' = nHandles + 1
                /\ calls'[c].h = nHandles'
                /\ clients'[calls[c].id] = nHandles'
                /\ sess'[nHandles'].id = calls[c].id
                /\ sess'[nHandles'].eng = "starting"
                /\ sess'[nHandles'].status = "initializing"
                /\ sess'[calls[c].h].eng = "destroyed"
           /\ ((calls[c].op = "reconnect" \/ calls'[c].op = "reconnect")
                 /\ calls'[c] # calls[c]) => creds' = creds
      /\ \A i \in Ids :
           (Enters("reconnect", i) /\ ~Registered(i)) =>
             /\ calls' = calls
             /\ ret'.res = "session_not_found"
             /\ clients' = clients /\ nHandles' = nHandles /\ creds' = creds
             /\ SameEngines
    ]_vars

\* reconnect has destroyed the first engine of its id and registered a second
\* one, which is starting; the credential directory of the id is still there
C19_Witness ==
  \E c \in Slots :
    /\ calls[c].op = "reconnect" /\ calls[c].pc = "await_init" /\ calls[c].h = 2
    /\ clients[calls[c].id] = 2
    /\ sess[1].eng = "destroyed" /\ sess[2].eng = "starting"
    /\ calls[c].id \in creds

\* C20: the message event of an inbound message whose attachment was
\* downloaded but could not be saved still carries the metadata of the
\* attachment (data.media with mimetype, filename, size and media_type).
C20_MetadataWithoutStorage ==
  (fired.kind = "message" /\ fired.bus /\ fired.media.att /\ ~fired.media.saved) =>
    fired.media.mode \in {"inline", "skipped"}

\* the calls that wait for a request they made to the engine of handle h
EngineCallsOf(h) ==
  {c \in Slots : calls[c].h = h
                 /\ calls[c].pc \in {"await_send", "await_send2", "await_lookup", "await_delete"}}

\* C21: the engine of a session serves one request at a time: no two send
\* operations wait at the same moment for a request to the same handle.
C21_OneEngineCallAtATime ==
  \A h \in Handles : Cardinality(EngineCallsOf(h)) <= 1

\* the kinds the API operations report, as opposed to the engine callbacks
OperationKinds == {"message_sent", "message_revoked", "session_deleted"}

C23_SnapshotThenLater ==
  [][/\ nListeners' # nListeners =>
          /\ fired'.kind = "sessions" /\ ~fired'.bus /\ fired'.recv = 0
          /\ fired'.list = listSessions
          /\ fired'.list = listSessions'
     /\ fired'.bus => fired'.recv <= nListeners /\ nListeners' = nListeners]_vars

\* a socket connects after the session was authenticated: the frame it is sent
\* shows the status, the event itself is not sent
C23_Witness ==
  /\ nListeners >= 1
  /\ fired.kind = "sessions"
  /\ \E r \in fired.list : r.status = "authenticating"
\* C24: when the POST of a webhook settles, as a success or as a failure,
\* nothing but the record of the delivery changes: registry, sessions, calls
\* in flight, suspended handlers and the result the operation returned stay as
\* they are, the failure is not raised anywhere, and no event is posted more
\* than once.
C24_WebhookFailureIgnored ==
  [][/\ fired.post = "inflight" /\ fired'.post \in {"ok", "failed"} =>
          /\ UNCHANGED <<clients, nHandles, sess, creds, calls, pending, nListeners, ret>>
          /\ fired' = [fired EXCEPT !.post = fired'.post]
     /\ fired'.attempts <= 1
     /\ fired'.attempts = 1 <=> fired'.hook /\ webhookUrl]_vars

\* sendText returned the message and the POST of its message_sent failed
C24_Witness ==
  /\ fired.kind = "message_sent" /\ fired.post = "failed"
  /\ ret.op = "sendText" /\ ret.res = "ok"
\* a sendText on A waits for an answer of the engine of A
Stuck == \E c \in Slots : calls[c].id = StuckId /\ calls[c].pc = "await_send"

\* C25: while a send on session A waits for an engine that never answers,
\* every call on session B that is in flight (create, sendText, delete) returns
\* its result, and the send on A is still waiting then.
C25_OtherSessionProgresses ==
  \A c \in Slots :
    (Stuck /\ calls[c].id = OtherId /\ calls[c].pc # "idle")
      ~> (Stuck /\ calls[c].pc = "idle" /\ ret.id = OtherId /\ ret.res = "ok")

\* the send on A waits and a sendText on B has returned the message
C25_Witness ==
  /\ Stuck
  /\ ret.op = "sendText" /\ ret.id = OtherId /\ ret.res = "ok"
\* the MIME strings that name audio/ogg, with parameters or without
VoiceCompatible ==
  { [base |-> "audio/ogg", rest |-> <<>>],
    [base |-> "audio/ogg", rest |-> <<";", " ", "c", "=", "o">>],
    [base |-> "AUDIO/OGG", rest |-> <<>>],
    [base |-> "Audio/Ogg", rest |-> <<";">>] }

\* the step is sendMedia(i, to, buffer, m, ..., {asVoice}) passing its guards
\* and handing the media to the engine
SendsMedia(c, i, m, asVoice) ==
  /\ Registered(i) /\ sess[clients[i]].status = "ready"
  /\ m.base # ""
  /\ \E to \in ToInputs \ BadRecipients : sendMediaCall(c, i, to, TRUE, m, asVoice)

\* C26: sendMedia hands the media to the engine with the voice flag set
\* exactly when the caller asked for a voice note and the MIME type is
\* audio/ogg, with or without parameters; with any other MIME type the flag is
\* not set and the media is handed to the engine all the same.
C26_VoiceFlag ==
  [][\A c \in Slots, i \in Ids, m \in MimeInputs, asVoice \in BOOLEAN :
        SendsMedia(c, i, m, asVoice) =>
          /\ calls'[c].op = "sendMedia" /\ calls'[c].pc = "await_send"
          /\ ret' = NoRet
          /\ calls'[c].arg = IF asVoice /\ m \in VoiceCompatible THEN "voice" ELSE "plain"]_vars

\* a sendMedia waits for the engine with the voice flag set
C26_Witness ==
  \E c \in Slots : calls[c].op = "sendMedia" /\ calls[c].pc = "await_send"
                    /\ calls[c].arg = "voice"
BareSuffix == <<"@", "c", ".", "u", "s">>

\* C27: a recipient that ends in @c.us or @g.us reaches the engine unchanged,
\* any other recipient with a digit reaches it as its digits followed by
\* @c.us, and a recipient with no digit and no such suffix never reaches the
\* engine, in particular not as the bare "@c.us".
C27_Normalizes ==
  \A c \in Slots :
    calls[c].pc = "await_send" =>
      IF HasChatSuffix(Trim(calls[c].to))
        THEN calls[c].chat = Trim(calls[c].to)
        ELSE /\ OnlyDigits(calls[c].to) # <<>>
             /\ calls[c].chat = OnlyDigits(calls[c].to) \o BareSuffix
\* the order of the statuses a session goes through on its way to ready
ForwardStatuses == {"initializing", "qr", "authenticating", "ready"}

Rank(status) ==
  CASE status = "initializing" -> 0
    [] status = "qr" -> 1
    [] status = "authenticating" -> 2
    [] status = "ready" -> 3
    [] OTHER -> 4

TerminalStatuses == {"auth_failure", "disconnected"}

\* the status of no session object moves backward in the order initializing,
\* qr, authenticating, ready
NeverBackward ==
  \A h \in Handles :
    sess[h].status \in ForwardStatuses /\ sess'[h].status \in ForwardStatuses
      => Rank(sess'[h].status) >= Rank(sess[h].status)

\* C28: the status of a session never moves backward in the order
\* initializing, qr, authenticating, ready, and a session in auth_failure or
\* disconnected keeps that status whatever callback its engine delivers.
C28_StatusGraph ==
  [][/\ NeverBackward
     /\ \A h \in Handles :
          sess[h].status \in TerminalStatuses
            => sess'[h].status \in {sess[h].status, "unreachable"}]_vars
\* restoreAllSessions has called createSession for the directory of id
Attempted(id) == id = restore.cur \/ id \in Range(IdsOf(restore.log))

\* C29: once restoreAllSessions has read the directories, it eventually calls
\* createSession for every one of them, even if the engine of an earlier one
\* never finishes starting.
C29_RestoreReachesAll ==
  (restore.pc # "idle") ~> (\A id \in Range(restore.dirs) : Attempted(id))
\* the step belongs to a sendText, sendMedia or revokeMessage: its entry, the
\* continuation of one of its awaits, or its return or throw
SendStep ==
  \/ \E c \in Slots : calls'[c] # calls[c]
                        /\ (calls[c].op \in SendOps \/ calls'[c].op \in SendOps)
  \/ ret'.op \in SendOps

\* the step belongs to a handler of an engine callback
CallbackStep == pending' # pending \/ fired'.kind \in CallbackKinds

\* the statuses a session object is given by the code
SessionStatuses == ForwardStatuses \cup TerminalStatuses

\* C30: no step of sendText, sendMedia or revokeMessage, successful or not,
\* adds or removes a registry entry or changes the status, info or me of a
\* registered session; the status of a session object changes only in a step
\* of an engine callback handler.
C30_SendFrame ==
  [][/\ SendStep =>
          /\ clients' = clients /\ nHandles' = nHandles
          /\ \A i \in Ids : Registered(i) =>
                /\ sess'[clients[i]].status = sess[clients[i]].status
                /\ sess'[clients[i]].info = sess[clients[i]].info
                /\ sess'[clients[i]].me = sess[clients[i]].me
     /\ \A h \in Handles :
          (/\ sess[h].status \in SessionStatuses
           /\ sess'[h].status \in SessionStatuses
           /\ sess'[h].status # sess[h].status) => CallbackStep]_vars

\* a send was rejected by the engine and its session is registered and ready
C30_Witness ==
  /\ ret.op \in SendOps /\ ret.res = "engine_error"
  /\ ret.id \in Ids /\ Registered(ret.id)
  /\ sess[clients[ret.id]].status = "ready"
\* the step is the return of call c of op, which waited at one of pcs, with
\* its success value
ReturnsOk(c, ops, pcs) ==
  /\ calls[c].op \in ops /\ calls[c].pc \in pcs
  /\ calls'[c].pc = "idle"
  /\ ret'.op = calls[c].op /\ ret'.id = calls[c].id /\ ret'.res = "ok"
  /\ fired'.h = calls[c].h

\* C31: message_sent is reported only in the step in which a sendText or
\* sendMedia returns the message the engine sent, message_revoked only in the
\* step in which a revoke returns after the message was found and its delete
\* completed; a send operation that throws reports neither.
C31_EventAfterSuccess ==
  [][/\ fired'.kind = "message_sent" =>
          \E c \in Slots :
            ReturnsOk(c, {"sendText", "sendMedia"}, {"await_send", "await_send2"})
     /\ fired'.kind = "message_revoked" =>
          \E c \in Slots : ReturnsOk(c, {"revoke"}, {"await_delete"})
     /\ (ret'.op \in SendOps /\ ret'.res # "ok") =>
          fired'.kind \notin {"message_sent", "message_revoked"}]_vars

\* a revoke threw message_not_found and nothing was reported
C31_Witness ==
  /\ ret.op = "revoke" /\ ret.res = "message_not_found"
  /\ fired.kind = "-"
\* C32: the bridge holds no more than one forwarding listener per topic
\* however many sockets have connected, and an event published on the bus is
\* forwarded by no more than one listener.
C32_ForwardedOnce ==
  /\ nListeners <= 1
  /\ fired.bus => fired.recv <= 1
\* the step changes what the registry, the session object or the disk hold
\* for id i
Changed(i) ==
  \/ clients'[i] # clients[i]
  \/ (i \in creds') # (i \in creds)
  \/ Registered(i) /\ sess'[clients[i]] # sess[clients[i]]

\* the step belongs to an operation called with id i or to the engine of a
\* session of i: a call of i enters, resumes or returns, a handler of an
\* engine of i publishes or suspends, or an engine of i writes its credentials
About(i) ==
  \/ \E c \in Slots : calls'[c] # calls[c] /\ i \in {calls[c].id, calls'[c].id}
  \/ ret'.op # "-" /\ ret'.id = i
  \/ fired'.h # 0 /\ sess[fired'.h].id = i
  \/ Len(pending') > Len(pending) /\ sess[pending'[Len(pending')].h].id = i
  \/ /\ calls' = calls /\ ret' = NoRet /\ fired' = NoEv /\ pending' = pending
     /\ \E h \in 1..nHandles : Live(h) /\ sess[h].id = i

\* C33: a step of an operation on one id or of a callback of its engine
\* changes the registry entry, the session (status, info, me, engine) and the
\* credential directory of no other id: whatever a step changes belongs to
\* the id the step is about, and no step changes two ids.
C33_OtherIdsUntouched ==
  [][/\ \A i \in Ids : Changed(i) => About(i)
     /\ Cardinality({i \in Ids : Changed(i)}) <= 1]_vars

\* a delete of one id returned while the other id is registered, ready and
\* has its credential directory
C33_Witness ==
  /\ ret.op = "delete" /\ ret.id = StuckId /\ ret.res = "ok"
  /\ ~Registered(StuckId)
  /\ Registered(OtherId) /\ sess[clients[OtherId]].status = "ready"
  /\ OtherId \in creds
====
